---- MODULE Spec2Model ----
(***************************************************************************)
(* The two column-renaming scripts of backend/:                            *)
(*   fix-handlers-snake-case.py  (update_file, unrestricted replacement)   *)
(*   update_sql_columns.py       (update_sql_in_content, replacement only  *)
(*                                inside backtick-delimited blocks)        *)
(* Texts are sequences of one-character strings; str.count, str.replace,   *)
(* re.finditer and slicing are computed character by character.            *)
(***************************************************************************)
EXTENDS Integers, Sequences, FiniteSets, TLC

\* fix-handlers-snake-case.py: the dict COLUMN_MAPPINGS, in insertion order
\* (the order .items() iterates in).
COLUMN_MAPPINGS ==
  << << <<"\"","t","e","a","m","I","d","\"">>,
        <<"t","e","a","m","_","i","d">> >>,
     << <<"\"","u","s","e","r","I","d","\"">>,
        <<"u","s","e","r","_","i","d">> >>,
     << <<"\"","s","c","h","e","d","u","l","e","d","F","o","r","\"">>,
        <<"s","c","h","e","d","u","l","e","d","_","f","o","r">> >>,
     << <<"\"","p","u","b","l","i","s","h","e","d","A","t","\"">>,
        <<"p","u","b","l","i","s","h","e","d","_","a","t">> >>,
     << <<"\"","c","r","e","a","t","e","d","A","t","\"">>,
        <<"c","r","e","a","t","e","d","_","a","t">> >>,
     << <<"\"","u","p","d","a","t","e","d","A","t","\"">>,
        <<"u","p","d","a","t","e","d","_","a","t">> >>,
     << <<"\"","l","a","s","t","P","u","b","l","i","s","h","J","o","b","I","d","\"">>,
        <<"l","a","s","t","_","p","u","b","l","i","s","h","_","j","o","b","_","i","d">> >>,
     << <<"\"","l","a","s","t","P","u","b","l","i","s","h","S","t","a","t","u","s","\"">>,
        <<"l","a","s","t","_","p","u","b","l","i","s","h","_","s","t","a","t","u","s">> >>,
     << <<"\"","l","a","s","t","P","u","b","l","i","s","h","E","r","r","o","r","\"">>,
        <<"l","a","s","t","_","p","u","b","l","i","s","h","_","e","r","r","o","r">> >>,
     << <<"\"","l","a","s","t","P","u","b","l","i","s","h","A","t","t","e","m","p","t","A","t","\"">>,
        <<"l","a","s","t","_","p","u","b","l","i","s","h","_","a","t","t","e","m","p","t","_","a","t">> >>,
     << <<"\"","p","r","o","v","i","d","e","r","I","d","\"">>,
        <<"p","r","o","v","i","d","e","r","_","i","d">> >>,
     << <<"\"","i","m","a","g","e","U","r","l","\"">>,
        <<"i","m","a","g","e","_","u","r","l">> >> >>

\* update_sql_columns.py: the list REPLACEMENTS.
REPLACEMENTS ==
  << << <<"\"","t","e","a","m","I","d","\"">>,
        <<"t","e","a","m","_","i","d">> >>,
     << <<"\"","u","s","e","r","I","d","\"">>,
        <<"u","s","e","r","_","i","d">> >>,
     << <<"\"","p","r","o","v","i","d","e","r","I","d","\"">>,
        <<"p","r","o","v","i","d","e","r","_","i","d">> >>,
     << <<"\"","s","c","h","e","d","u","l","e","d","F","o","r","\"">>,
        <<"s","c","h","e","d","u","l","e","d","_","f","o","r">> >>,
     << <<"\"","p","u","b","l","i","s","h","e","d","A","t","\"">>,
        <<"p","u","b","l","i","s","h","e","d","_","a","t">> >>,
     << <<"\"","c","r","e","a","t","e","d","A","t","\"">>,
        <<"c","r","e","a","t","e","d","_","a","t">> >>,
     << <<"\"","u","p","d","a","t","e","d","A","t","\"">>,
        <<"u","p","d","a","t","e","d","_","a","t">> >>,
     << <<"\"","l","a","s","t","P","u","b","l","i","s","h","J","o","b","I","d","\"">>,
        <<"l","a","s","t","_","p","u","b","l","i","s","h","_","j","o","b","_","i","d">> >>,
     << <<"\"","l","a","s","t","P","u","b","l","i","s","h","S","t","a","t","u","s","\"">>,
        <<"l","a","s","t","_","p","u","b","l","i","s","h","_","s","t","a","t","u","s">> >>,
     << <<"\"","l","a","s","t","P","u","b","l","i","s","h","E","r","r","o","r","\"">>,
        <<"l","a","s","t","_","p","u","b","l","i","s","h","_","e","r","r","o","r">> >>,
     << <<"\"","l","a","s","t","P","u","b","l","i","s","h","A","t","t","e","m","p","t","A","t","\"">>,
        <<"l","a","s","t","_","p","u","b","l","i","s","h","_","a","t","t","e","m","p","t","_","a","t">> >>,
     << <<"\"","i","m","a","g","e","U","r","l","\"">>,
        <<"i","m","a","g","e","_","u","r","l">> >> >>

\* The characters the scripts look for, and the two that open(..., 'r') translates.
QUOTE == "\""
\* The delimiter of Go raw strings, the grave accent (U+0060).  A TLA+ string
\* cannot hold that character, so the one-character string is written GRAVE.
BACKTICK == "GRAVE"
CR == "\r"
LF == "\n"

Min(a, b) == IF a < b THEN a ELSE b

\* Python slicing s[a:b] with 0-based offsets 0 <= a; offsets past the end are
\* clamped to len(s), as Python does.
Slice(s, a, b) == SubSeq(s, Min(a, Len(s)) + 1, Min(b, Len(s)))

\* Does pat occur in s starting at the (1-based) position i?
MatchAt(s, i, pat) ==
  /\ i + Len(pat) - 1 <= Len(s)
  /\ \A k \in 1..Len(pat) : s[i + k - 1] = pat[k]

\* str.count(pat): the number of non-overlapping occurrences, scanning from the
\* left and resuming after the end of each occurrence found.
RECURSIVE CountFrom(_, _, _)
CountFrom(s, pat, i) ==
  IF i + Len(pat) - 1 > Len(s) THEN 0
  ELSE IF MatchAt(s, i, pat) THEN 1 + CountFrom(s, pat, i + Len(pat))
  ELSE CountFrom(s, pat, i + 1)

StrCount(s, pat) == CountFrom(s, pat, 1)

\* Faulty variant of StrReplace: str.replace(old, new, 1), only the leftmost
\* occurrence is replaced.
RECURSIVE ReplaceFirstFrom(_, _, _, _)
ReplaceFirstFrom(s, old, new, i) ==
  IF i > Len(s) THEN << >>
  ELSE IF MatchAt(s, i, old) THEN new \o SubSeq(s, i + Len(old), Len(s))
  ELSE << s[i] >> \o ReplaceFirstFrom(s, old, new, i + 1)

StrReplace_FirstOnly(s, old, new) == ReplaceFirstFrom(s, old, new, 1)

\* str.replace(old, new): every non-overlapping occurrence, leftmost first.
RECURSIVE ReplaceFrom(_, _, _, _)
ReplaceFrom(s, old, new, i) ==
  IF i > Len(s) THEN << >>
  ELSE IF MatchAt(s, i, old) THEN new \o ReplaceFrom(s, old, new, i + Len(old))
  ELSE << s[i] >> \o ReplaceFrom(s, old, new, i + 1)

StrReplace(s, old, new) == ReplaceFrom(s, old, new, 1)

\* Faulty variant of ReplaceLoop: replacements_made += 1 for a mapping entry
\* that matched, whatever its count.
RECURSIVE ReplaceLoop_CountOnce(_, _, _, _)
ReplaceLoop_CountOnce(text, made, mappings, k) ==
  IF k > Len(mappings) THEN << text, made >>
  ELSE LET old_name == mappings[k][1]
           new_name == mappings[k][2]
           count == StrCount(text, old_name)
       IN IF count > 0
          THEN ReplaceLoop_CountOnce(StrReplace(text, old_name, new_name), made + 1,
                                     mappings, k + 1)
          ELSE ReplaceLoop_CountOnce(text, made, mappings, k + 1)

\* Faulty variant of ReplaceLoop: replacements_made += 1 outside the if, for
\* every mapping entry.
RECURSIVE ReplaceLoop_CountAlways(_, _, _, _)
ReplaceLoop_CountAlways(text, made, mappings, k) ==
  IF k > Len(mappings) THEN << text, made >>
  ELSE LET old_name == mappings[k][1]
           new_name == mappings[k][2]
           count == StrCount(text, old_name)
       IN IF count > 0
          THEN ReplaceLoop_CountAlways(StrReplace(text, old_name, new_name),
                                       made + count + 1, mappings, k + 1)
          ELSE ReplaceLoop_CountAlways(text, made + 1, mappings, k + 1)

\* Faulty variant of ReplaceLoop: a break after the first mapping entry that
\* matched.
RECURSIVE ReplaceLoop_Break(_, _, _, _)
ReplaceLoop_Break(text, made, mappings, k) ==
  IF k > Len(mappings) THEN << text, made >>
  ELSE LET old_name == mappings[k][1]
           new_name == mappings[k][2]
           count == StrCount(text, old_name)
       IN IF count > 0
          THEN << StrReplace(text, old_name, new_name), made + count >>
          ELSE ReplaceLoop_Break(text, made, mappings, k + 1)

\* The replacement loop shared by both scripts, from mapping entry k on:
\*   count = text.count(old); if count > 0: text = text.replace(old, new);
\*   replacements_made += count
\* The result is << text, replacements_made >>.
RECURSIVE ReplaceLoop(_, _, _, _)
ReplaceLoop(text, made, mappings, k) ==
  IF k > Len(mappings) THEN << text, made >>
  ELSE LET old_name == mappings[k][1]
           new_name == mappings[k][2]
           count == StrCount(text, old_name)
       IN IF count > 0
          THEN ReplaceLoop(StrReplace(text, old_name, new_name), made + count,
                           mappings, k + 1)
          ELSE ReplaceLoop(text, made, mappings, k + 1)

\* update_file, between its read and its write: updated_content and
\* replacements_made for a content.
UpdateFileContent(content) == ReplaceLoop(content, 0, COLUMN_MAPPINGS, 1)

\* The (1-based) position of the first backtick of s at or after i; 0 if none.
RECURSIVE FindBacktick(_, _)
FindBacktick(s, i) ==
  IF i > Len(s) THEN 0
  ELSE IF s[i] = BACKTICK THEN i
  ELSE FindBacktick(s, i + 1)

\* re.finditer(pattern, content, re.DOTALL), pattern being a backtick, a group
\* of non-backtick characters and a backtick, from the 0-based offset pos on:
\* the matches << start, end, group(1) >> in document order.  A match runs from
\* a backtick to the next one; the search resumes after the closing backtick.
RECURSIVE FindIter(_, _)
FindIter(content, pos) ==
  LET open == FindBacktick(content, pos + 1)
  IN IF open = 0 THEN << >>
     ELSE LET close == FindBacktick(content, open + 1)
          IN IF close = 0 THEN << >>
             ELSE << << open - 1, close, Slice(content, open, close - 1) >> >>
                  \o FindIter(content, close)

extract_sql_queries(content) == FindIter(content, 0)

\* list.reverse()
Reverse(q) == [k \in 1..Len(q) |-> q[Len(q) + 1 - k]]

\* The inner loop of update_sql_in_content for one block: << updated_sql, count >>.
UpdateSqlBlock(sql) == ReplaceLoop(sql, 0, REPLACEMENTS, 1)

\* The outer loop of update_sql_in_content over queries[k..]: each block is
\* rewritten and, when it changed, spliced into content at its recorded offsets.
RECURSIVE SpliceLoop(_, _, _, _)
SpliceLoop(content, made, queries, k) ==
  IF k > Len(queries) THEN << content, made >>
  ELSE LET start == queries[k][1]
           end == queries[k][2]
           sql == queries[k][3]
           r == UpdateSqlBlock(sql)
           updated_sql == r[1]
           spliced == IF updated_sql # sql
                      THEN Slice(content, 0, start) \o << BACKTICK >> \o updated_sql
                           \o << BACKTICK >> \o Slice(content, end, Len(content))
                      ELSE content
       IN SpliceLoop(spliced, made + r[2], queries, k + 1)

\* Faulty variant of ProcessingOrder: queries.reverse() left out.
ProcessingOrder_Forward(queries) == queries

\* The order in which update_sql_in_content walks the blocks: last block first.
ProcessingOrder(queries) == Reverse(queries)

\* Faulty variant of update_sql_in_content: the replacement loop over the whole
\* content, as update_file does, instead of over the blocks.
update_sql_in_content_Unscoped(content) == ReplaceLoop(content, 0, REPLACEMENTS, 1)

update_sql_in_content(content) ==
  SpliceLoop(content, 0, ProcessingOrder(extract_sql_queries(content)), 1)

\* ------------------------------------------------------------------------
\* Files.  A file's bytes are a sequence of characters; the scripts open every
\* file in text mode with the default newline handling.

\* f.read() of a file opened with open(path, 'r'): universal newlines, so CR LF
\* and a lone CR both arrive as LF.
RECURSIVE TextRead(_)
TextRead(data) ==
  IF data = << >> THEN << >>
  ELSE IF Head(data) = CR
       THEN IF Len(data) >= 2 /\ data[2] = LF
            THEN << LF >> \o TextRead(Tail(Tail(data)))
            ELSE << LF >> \o TextRead(Tail(data))
       ELSE << Head(data) >> \o TextRead(Tail(data))

\* f.write(s) to a file opened with open(path, 'w'): every LF is written as
\* os.linesep.
RECURSIVE TextWrite(_, _)
TextWrite(s, linesep) ==
  IF s = << >> THEN << >>
  ELSE (IF Head(s) = LF THEN linesep ELSE << Head(s) >>) \o TextWrite(Tail(s), linesep)

\* main(): the hard-coded list of target files, the same in both scripts.
Files ==
  << "internal/handlers/handlers.go",
     "internal/handlers/scheduled_posts_worker.go",
     "internal/handlers/realtime_ws.go" >>

\* f"{filepath}.bak"
Bak(filepath) == filepath \o ".bak"

Paths == { Files[i] : i \in 1..Len(Files) } \cup { Bak(Files[i]) : i \in 1..Len(Files) }

NoFile == [exists |-> FALSE, data |-> << >>]
File(data) == [exists |-> TRUE, data |-> data]

FIX == "fix-handlers-snake-case.py"
SQL == "update_sql_columns.py"

\* ------------------------------------------------------------------------
\* Inputs.

RECURSIVE Flatten(_)
Flatten(chunks) ==
  IF chunks = << >> THEN << >> ELSE Head(chunks) \o Flatten(Tail(chunks))

SeqsUpTo(S, n) == UNION { [1..k -> S] : k \in 0..n }

\* Pieces from which quoted names are assembled one quote at a time, so that old
\* tokens can share a quote character.
FineChunks ==
  { << QUOTE >>,
    << "t","e","a","m","I","d","\"" >>,
    << "u","s","e","r","I","d","\"" >>,
    << "p","r","o","v","i","d","e","r","I","d","\"" >>,
    << "l","a","s","t","P","u","b","l","i","s","h","A","t","t","e","m","p","t","A","t","\"" >> }

\* Pieces for texts with several backtick blocks: a token that grows when renamed,
\* a piece that is plain text on its own and a token (which shrinks when renamed)
\* right after a quote, and the delimiter.
BlockChunks ==
  { << "\"","l","a","s","t","P","u","b","l","i","s","h","J","o","b","I","d","\"" >>,
    << "t","e","a","m","I","d","\"" >>,
    << BACKTICK >> }

MaxFineChunks == 4
MaxBlockChunks == 6

\* The example of the specification: SELECT "userId", "teamId" FROM posts
ExampleSelect ==
  << "S","E","L","E","C","T"," ","\"","u","s","e","r","I","d","\"",","," ",
     "\"","t","e","a","m","I","d","\""," ","F","R","O","M"," ","p","o","s","t","s" >>

Inputs ==
  { Flatten(c) : c \in SeqsUpTo(FineChunks, MaxFineChunks) }
  \cup { Flatten(c) : c \in SeqsUpTo(BlockChunks, MaxBlockChunks) }
  \cup { ExampleSelect }

\* Contents a target file may have when a run starts: no old token; an old
\* token outside and one inside a block, and a lone CR; a block with an old
\* token and a CR LF line end.
FileSamples ==
  { << "x", LF >>,
    << "\"","t","e","a","m","I","d","\"", BACKTICK,
       "\"","t","e","a","m","I","d","\"", BACKTICK, CR >>,
    << BACKTICK, "\"","u","s","e","r","I","d","\"", BACKTICK, CR, LF >> }

\* What a backup left behind by some earlier use may hold.
StaleBackup == << "o", "l", "d", LF >>

\* How many times in succession a script is run.
MaxRuns == 2

\* ------------------------------------------------------------------------
\* State.

VARIABLES
  \* one call of a transformation, and a second call on its result
  text,             \* the content passed to the first call
  fn,               \* "update_file" (its replacement pass) or "update_sql_in_content"
  calls,            \* calls made so far
  out1, n1,         \* the first call's updated content and replacement count
  out2, n2,         \* the second call's
  \* a run of a script over the file list
  script,           \* FIX or SQL
  os_linesep,       \* os.linesep of the platform
  fs,               \* the filesystem: path -> NoFile or File(bytes)
  pc,               \* where the run is
  idx,              \* position in the file list (1-based; Len(Files) + 1 after the loop)
  content,          \* process_file / update_file: content
  updated_content,  \*                               updated_content
  count,            \*                               count / replacements_made
  total,            \* main: total / total_replacements
  exit_status,      \* the process's exit status, once pc is "done" or "aborted"
  summary,          \* whether the final "Complete!" summary was printed
  report,           \* what was printed about an error
  warnings,         \* files reported as not found
  runs,             \* runs started so far
  log,              \* this run's file operations, in order: << op, path >>
  startfs,          \* the filesystem when this run started
  orig,             \* the filesystem before the first run
  counts,           \* this run's replacement count per target file
  past              \* the finished runs: [start, counts]

callvars == << text, fn, calls, out1, n1, out2, n2 >>
runvars == << script, os_linesep, fs, pc, idx, content, updated_content, count, total,
              exit_status, summary, report, warnings, runs, log, startfs, orig,
              counts, past >>
vars == << callvars, runvars >>

NoFiles == [p \in Paths |-> NoFile]
NoCounts == [i \in 1..Len(Files) |-> 0]

\* ------------------------------------------------------------------------
\* The transformations as functions of the content.

NoCall ==
  /\ fn = "none" /\ calls = 0
  /\ out1 = << >> /\ n1 = 0 /\ out2 = << >> /\ n2 = 0

NoRun ==
  /\ script = "none" /\ os_linesep = << LF >> /\ fs = NoFiles /\ pc = "idle"
  /\ idx = 0 /\ content = << >> /\ updated_content = << >> /\ count = 0
  /\ total = 0 /\ exit_status = 0 /\ summary = FALSE /\ report = ""
  /\ warnings = {} /\ runs = 0 /\ log = << >> /\ startfs = NoFiles
  /\ orig = NoFiles /\ counts = NoCounts /\ past = << >>

Init ==
  /\ text \in Inputs
  /\ NoCall
  /\ NoRun

\* update_file's replacement pass over a content
CallUpdateFile ==
  /\ calls = 0
  /\ fn' = "update_file"
  /\ calls' = 1
  /\ LET r == UpdateFileContent(text) IN out1' = r[1] /\ n1' = r[2]
  /\ UNCHANGED << text, out2, n2, runvars >>

\* update_sql_in_content(content)
CallUpdateSql ==
  /\ calls = 0
  /\ fn' = "update_sql_in_content"
  /\ calls' = 1
  /\ LET r == update_sql_in_content(text) IN out1' = r[1] /\ n1' = r[2]
  /\ UNCHANGED << text, out2, n2, runvars >>

\* The same transformation again, on the first call's result.
CallAgain ==
  /\ calls = 1
  /\ calls' = 2
  /\ LET r == IF fn = "update_file" THEN UpdateFileContent(out1)
              ELSE update_sql_in_content(out1)
     IN out2' = r[1] /\ n2' = r[2]
  /\ UNCHANGED << text, fn, out1, n1, runvars >>

Next == CallUpdateFile \/ CallUpdateSql \/ CallAgain

Spec == Init /\ [][Next]_vars

\* ------------------------------------------------------------------------
\* A run of a script: main() and update_file / process_file, one file operation
\* per step.

InitialFs ==
  { [p \in Paths |-> IF \E i \in 1..Len(Files) : p = Files[i]
                      THEN c[CHOOSE i \in 1..Len(Files) : p = Files[i]]
                      ELSE b[CHOOSE i \in 1..Len(Files) : p = Bak(Files[i])]] :
      c \in [1..Len(Files) -> { NoFile } \cup { File(d) : d \in FileSamples }],
      b \in [1..Len(Files) -> { NoFile, File(StaleBackup) }] }

InitRun ==
  /\ text = << >>
  /\ NoCall
  /\ script \in { FIX, SQL }
  /\ os_linesep \in { << LF >>, << CR, LF >> }
  /\ fs \in InitialFs
  /\ pc = "main"
  /\ idx = 1
  /\ content = << >> /\ updated_content = << >> /\ count = 0
  /\ total = 0 /\ exit_status = 0 /\ summary = FALSE /\ report = ""
  /\ warnings = {} /\ runs = 1 /\ log = << >>
  /\ startfs = fs /\ orig = fs
  /\ counts = NoCounts /\ past = << >>

filepath == Files[idx]

\* Faulty variant of Terminate: sys.exit() without a status.
Terminate_ExitZero ==
  /\ pc' = "aborted"
  /\ exit_status' = 0
  /\ report' = IF script = FIX THEN "Error processing" ELSE "Traceback"

\* What both scripts do when an exception other than FileNotFoundError leaves
\* update_file / process_file: FIX catches it in main, prints "Error
\* processing ..." and calls sys.exit(1); SQL has no handler, so the interpreter
\* prints the traceback and exits with status 1.
Terminate ==
  /\ pc' = "aborted"
  /\ exit_status' = 1
  /\ report' = IF script = FIX THEN "Error processing" ELSE "Traceback"

\* open(filepath, 'r') and f.read() succeed.
ReadFile ==
  /\ pc = "main" /\ idx <= Len(Files)
  /\ fs[filepath].exists
  /\ content' = TextRead(fs[filepath].data)
  /\ log' = Append(log, << "read", filepath >>)
  /\ pc' = "backup"
  /\ UNCHANGED << callvars, script, os_linesep, fs, idx, updated_content, count, total,
                  exit_status, summary, report, warnings, runs, startfs, orig,
                  counts, past >>

\* Faulty variant of SkipMissing: FileNotFoundError handled like any other error.
SkipMissing_Fatal ==
  /\ pc = "main" /\ idx <= Len(Files)
  /\ ~fs[filepath].exists
  /\ Terminate
  /\ UNCHANGED << callvars, script, os_linesep, fs, idx, content, updated_content, count,
                  total, summary, warnings, runs, log, startfs, orig, counts, past >>

\* open(filepath, 'r') raises FileNotFoundError: FIX catches it in main, SQL in
\* process_file (which returns 0); both print a warning and go on to the next
\* file.
SkipMissing ==
  /\ pc = "main" /\ idx <= Len(Files)
  /\ ~fs[filepath].exists
  /\ warnings' = warnings \cup { filepath }
  /\ total' = IF script = SQL THEN total + 0 ELSE total
  /\ idx' = idx + 1
  /\ UNCHANGED << callvars, script, os_linesep, fs, pc, content, updated_content, count,
                  exit_status, summary, report, runs, log, startfs, orig,
                  counts, past >>

\* open(filepath, 'r') or f.read() raises another error (permission, decoding).
ReadFails ==
  /\ pc = "main" /\ idx <= Len(Files)
  /\ fs[filepath].exists
  /\ Terminate
  /\ UNCHANGED << callvars, script, os_linesep, fs, idx, content, updated_content, count,
                  total, summary, warnings, runs, log, startfs, orig, counts, past >>

\* Faulty variant of WriteBackup: an existing backup is kept, not overwritten.
WriteBackup_KeepExisting ==
  /\ pc = "backup"
  /\ fs' = IF fs[Bak(filepath)].exists THEN fs
           ELSE [fs EXCEPT ![Bak(filepath)] = File(TextWrite(content, os_linesep))]
  /\ log' = Append(log, << "backup", filepath >>)
  /\ pc' = "replace"
  /\ UNCHANGED << callvars, script, os_linesep, idx, content, updated_content, count,
                  total, exit_status, summary, report, warnings, runs, startfs, orig,
                  counts, past >>

\* with open(f"{filepath}.bak", 'w') as f: f.write(content)
WriteBackup ==
  /\ pc = "backup"
  /\ fs' = [fs EXCEPT ![Bak(filepath)] = File(TextWrite(content, os_linesep))]
  /\ log' = Append(log, << "backup", filepath >>)
  /\ pc' = "replace"
  /\ UNCHANGED << callvars, script, os_linesep, idx, content, updated_content, count,
                  total, exit_status, summary, report, warnings, runs, startfs, orig,
                  counts, past >>

\* The backup cannot be written: open(..., 'w') fails and leaves the path as it
\* was, or the write fails after open has truncated the file.
BackupFails ==
  /\ pc = "backup"
  /\ \E truncated \in BOOLEAN :
       fs' = IF truncated THEN [fs EXCEPT ![Bak(filepath)] = File(<< >>)] ELSE fs
  /\ Terminate
  /\ UNCHANGED << callvars, script, os_linesep, idx, content, updated_content, count,
                  total, summary, warnings, runs, log, startfs, orig, counts, past >>

\* The replacement pass over the content in memory.
Replace ==
  /\ pc = "replace"
  /\ LET r == IF script = FIX THEN UpdateFileContent(content)
              ELSE update_sql_in_content(content)
     IN updated_content' = r[1] /\ count' = r[2]
  /\ pc' = "write"
  /\ UNCHANGED << callvars, script, os_linesep, fs, idx, content, total, exit_status,
                  summary, report, warnings, runs, log, startfs, orig, counts, past >>

\* with open(filepath, 'w') as f: f.write(updated_content); the count is
\* returned and main adds it to the total.
WriteTarget ==
  /\ pc = "write"
  /\ fs' = [fs EXCEPT ![filepath] = File(TextWrite(updated_content, os_linesep))]
  /\ log' = Append(log, << "write", filepath >>)
  /\ total' = total + count
  /\ counts' = [counts EXCEPT ![idx] = count]
  /\ idx' = idx + 1
  /\ pc' = "main"
  /\ UNCHANGED << callvars, script, os_linesep, content, updated_content, count,
                  exit_status, summary, report, warnings, runs, startfs, orig, past >>

\* The target cannot be rewritten: open fails, or the write fails after open
\* has truncated the file.
WriteFails ==
  /\ pc = "write"
  /\ \E truncated \in BOOLEAN :
       fs' = IF truncated THEN [fs EXCEPT ![filepath] = File(<< >>)] ELSE fs
  /\ Terminate
  /\ UNCHANGED << callvars, script, os_linesep, idx, content, updated_content, count,
                  total, summary, warnings, runs, log, startfs, orig, counts, past >>

\* After the loop: the summary is printed and the script ends normally.
Finish ==
  /\ pc = "main" /\ idx > Len(Files)
  /\ summary' = TRUE
  /\ exit_status' = 0
  /\ pc' = "done"
  /\ UNCHANGED << callvars, script, os_linesep, fs, idx, content, updated_content, count,
                  total, report, warnings, runs, log, startfs, orig, counts, past >>

\* The same script is run again on the files as the finished run left them.
RunAgain ==
  /\ pc = "done" /\ runs < MaxRuns
  /\ past' = Append(past, [start |-> startfs, counts |-> counts])
  /\ runs' = runs + 1
  /\ startfs' = fs
  /\ pc' = "main" /\ idx' = 1
  /\ content' = << >> /\ updated_content' = << >> /\ count' = 0
  /\ total' = 0 /\ exit_status' = 0 /\ summary' = FALSE /\ report' = ""
  /\ warnings' = {} /\ log' = << >> /\ counts' = NoCounts
  /\ UNCHANGED << callvars, script, os_linesep, fs, orig >>

NextRun ==
  \/ ReadFile \/ SkipMissing \/ ReadFails
  \/ WriteBackup \/ BackupFails
  \/ Replace
  \/ WriteTarget \/ WriteFails
  \/ Finish
  \/ RunAgain

SpecRun == InitRun /\ [][NextRun]_vars

\* ------------------------------------------------------------------------
\* Vocabulary of the properties.

OldToken(k) == COLUMN_MAPPINGS[k][1]
NewToken(k) == COLUMN_MAPPINGS[k][2]
Entries == 1..Len(COLUMN_MAPPINGS)

\* The entries whose old token occurs in s at position i (at most one: no old
\* token is a prefix of another).
TokensAt(s, i) == { k \in Entries : MatchAt(s, i, OldToken(k)) }

\* The positions of s at which an old token occurs.
OccurrencePositions(s) ==
  { i \in 1..Len(s) : s[i] = QUOTE /\ TokensAt(s, i) # {} }

\* The number of occurrences of old tokens in s, overlapping ones included.
Occurrences(s) == Cardinality(OccurrencePositions(s))

\* Two occurrences of old tokens overlap: an old token starts and ends with a
\* quote and has none inside, so they share exactly one quote character.
Overlapping(s) ==
  \E i \in OccurrencePositions(s) :
    \E k \in TokensAt(s, i) : (i + Len(OldToken(k)) - 1) \in OccurrencePositions(s)

\* s with the old token found at each position, reading from the left, replaced
\* by its new token.
RECURSIVE ScanReplace(_, _)
ScanReplace(s, i) ==
  IF i > Len(s) THEN << >>
  ELSE IF s[i] = QUOTE /\ TokensAt(s, i) # {}
       THEN LET k == CHOOSE e \in TokensAt(s, i) : TRUE
            IN NewToken(k) \o ScanReplace(s, i + Len(OldToken(k)))
       ELSE << s[i] >> \o ScanReplace(s, i + 1)

EveryOccurrenceReplaced(s) == ScanReplace(s, 1)

\* s cut at its backticks: Segments(s)[1] precedes the 1st backtick and
\* Segments(s)[k + 1] follows the k-th.
RECURSIVE SegmentsFrom(_, _, _)
SegmentsFrom(s, i, cur) ==
  IF i > Len(s) THEN << cur >>
  ELSE IF s[i] = BACKTICK THEN << cur >> \o SegmentsFrom(s, i + 1, << >>)
  ELSE SegmentsFrom(s, i + 1, Append(cur, s[i]))

Segments(s) == SegmentsFrom(s, 1, << >>)

\* Segment k lies between the (k-1)-th and the k-th backtick, the two backticks
\* of a pair: k is even and the k-th backtick exists.
IsBlock(segs, k) == k % 2 = 0 /\ k < Len(segs)

RECURSIVE SumOverBlocks(_, _, _)
SumOverBlocks(Op(_), segs, k) ==
  IF k > Len(segs) THEN 0
  ELSE (IF IsBlock(segs, k) THEN Op(segs[k]) ELSE 0) + SumOverBlocks(Op, segs, k + 1)

OccurrencesInBlocks(s) == SumOverBlocks(Occurrences, Segments(s), 1)

OverlappingInBlocks(s) ==
  LET segs == Segments(s)
  IN \E k \in 1..Len(segs) : IsBlock(segs, k) /\ Overlapping(segs[k])

\* The segments joined again, a backtick between neighbours, the blocks
\* rewritten by the replacement loop.
RECURSIVE JoinRewritten(_, _)
JoinRewritten(segs, k) ==
  LET piece == IF IsBlock(segs, k) THEN UpdateSqlBlock(segs[k])[1] ELSE segs[k]
  IN IF k = Len(segs) THEN piece
     ELSE piece \o << BACKTICK >> \o JoinRewritten(segs, k + 1)

BlockCount(sql) == UpdateSqlBlock(sql)[2]

ExampleSelectUpdated ==
  << "S","E","L","E","C","T"," ","u","s","e","r","_","i","d",","," ",
     "t","e","a","m","_","i","d"," ","F","R","O","M"," ","p","o","s","t","s" >>

FileCalled == fn = "update_file" /\ calls >= 1
SqlCalled == fn = "update_sql_in_content" /\ calls >= 1

C3_Idempotent ==
  calls = 2 => out2 = out1 /\ n2 = 0

\* A second pass has run after a first pass that replaced overlapping tokens
\* inside a block.
C3_Witness ==
  /\ calls = 2
  /\ fn = "update_sql_in_content"
  /\ n1 >= 2
  /\ Overlapping(text)

\* C4 as stated: in delimited mode everything outside the blocks, delimiters
\* included, is unchanged, old tokens outside are not counted, and every old
\* token inside a block is replaced by its new token and counted.
C4_AsStated ==
  SqlCalled =>
    LET a == Segments(text)
        b == Segments(out1)
    IN /\ Len(b) = Len(a)
       /\ \A k \in 1..Len(a) : ~IsBlock(a, k) => b[k] = a[k]
       /\ \A k \in 1..Len(a) : IsBlock(a, k) => b[k] = EveryOccurrenceReplaced(a[k])
       /\ n1 = OccurrencesInBlocks(text)

\* C4 amended: everything outside the blocks, delimiters included, is unchanged
\* and old tokens outside are not counted; when no two old tokens inside a block
\* share a quote character, every old token inside a block is replaced by its
\* new token and counted.
C4_Scoping ==
  SqlCalled =>
    LET a == Segments(text)
        b == Segments(out1)
    IN /\ Len(b) = Len(a)
       /\ \A k \in 1..Len(a) : ~IsBlock(a, k) => b[k] = a[k]
       /\ n1 <= OccurrencesInBlocks(text)
       /\ ~OverlappingInBlocks(text) =>
            /\ \A k \in 1..Len(a) :
                 IsBlock(a, k) => b[k] = EveryOccurrenceReplaced(a[k])
            /\ n1 = OccurrencesInBlocks(text)

\* An old token outside the blocks was left alone while one inside was replaced.
C4_Witness ==
  /\ SqlCalled
  /\ ~OverlappingInBlocks(text)
  /\ n1 >= 1
  /\ Occurrences(text) > OccurrencesInBlocks(text)
  /\ Occurrences(out1) = Occurrences(text) - n1

C8_AsStated ==
  (FileCalled /\ calls = 1) => ReplaceLoop(text, 0, REPLACEMENTS, 1) = << out1, n1 >>

OtherOrders == { REPLACEMENTS, Reverse(REPLACEMENTS), Reverse(COLUMN_MAPPINGS) }

\* C8 amended: for every text in which no two occurrences of old tokens share a
\* quote character, every order of the mapping entries gives the same text and
\* the same count.
C8_OrderIndependent ==
  (FileCalled /\ calls = 1 /\ ~Overlapping(text)) =>
    \A order \in OtherOrders : ReplaceLoop(text, 0, order, 1) = << out1, n1 >>

\* A text with several distinct, non-overlapping old tokens was rewritten.
C8_Witness ==
  /\ FileCalled /\ calls = 1
  /\ ~Overlapping(text)
  /\ Cardinality(UNION { TokensAt(text, i) : i \in OccurrencePositions(text) }) >= 2

\* C9: update_sql_in_content returns the text in which the 1st backtick is
\* paired with the 2nd, the 3rd with the 4th and so on, the interior of each
\* pair is rewritten by the replacement loop and everything else, the text
\* after an unpaired last backtick included, is kept in its order; the count is
\* the sum of the blocks' counts.
C9_Splicing ==
  SqlCalled =>
    /\ out1 = JoinRewritten(Segments(text), 1)
    /\ n1 = SumOverBlocks(BlockCount, Segments(text), 1)

\* Two blocks were rewritten and the earlier one changed its length.
C9_Witness ==
  /\ SqlCalled
  /\ LET q == extract_sql_queries(text)
     IN /\ Len(q) >= 2
        /\ Len(UpdateSqlBlock(q[1][3])[1]) # Len(q[1][3])
        /\ UpdateSqlBlock(q[2][3])[1] # q[2][3]

\* ------------------------------------------------------------------------
\* Properties of a run.

Targets == 1..Len(Files)

Logged(op, i) == \E j \in 1..Len(log) : log[j] = << op, Files[i] >>
Touched(i) == \E j \in 1..Len(log) : log[j][2] = Files[i]

\* The position in the file list of the file of the j-th logged operation.
LoggedTarget(j) == CHOOSE i \in Targets : log[j][2] = Files[i]

\* What a run of the script makes of a target file's bytes d, and the backup it
\* leaves.
Rewritten(d) ==
  TextWrite((IF script = FIX THEN UpdateFileContent(TextRead(d))
             ELSE update_sql_in_content(TextRead(d)))[1], os_linesep)
BackedUp(d) == TextWrite(TextRead(d), os_linesep)

\* C1 as stated: once the run has written a target file F, F.bak holds the
\* content F had when the run started, whatever that content is, and the backup
\* was written before F was.
C1_AsStated ==
  \A i \in Targets :
    Logged("write", i) =>
      /\ fs[Bak(Files[i])] = File(startfs[Files[i]].data)
      /\ \E j, k \in 1..Len(log) :
           j < k /\ log[j] = << "backup", Files[i] >> /\ log[k] = << "write", Files[i] >>

\* C1, the part that holds: a target is written only after its backup, and the
\* backup holds the content as text-mode reading and writing pass it on.
C1_BackupFirst ==
  \A i \in Targets :
    Logged("write", i) =>
      /\ fs[Bak(Files[i])] = File(BackedUp(startfs[Files[i]].data))
      /\ \E j, k \in 1..Len(log) :
           j < k /\ log[j] = << "backup", Files[i] >> /\ log[k] = << "write", Files[i] >>

\* C5: a path that does not exist never ends the run: nothing is created for
\* it, it adds nothing to the total, the run goes on to the next file, the
\* files are handled in list order, and a run that meets no other error ends
\* with every existing file backed up and rewritten, the summary printed and
\* exit status 0.
C5_MissingFile ==
  /\ \A i \in Targets :
       ~startfs[Files[i]].exists =>
         /\ ~fs[Files[i]].exists
         /\ fs[Bak(Files[i])] = startfs[Bak(Files[i])]
         /\ counts[i] = 0
         /\ ~Touched(i)
         /\ idx > i => Files[i] \in warnings
         /\ ~(pc = "aborted" /\ idx = i)
  /\ \A j, k \in 1..Len(log) : j < k => LoggedTarget(j) <= LoggedTarget(k)
  /\ pc = "done" =>
       /\ summary /\ exit_status = 0
       /\ \A i \in Targets :
            startfs[Files[i]].exists =>
              /\ fs[Bak(Files[i])] = File(BackedUp(startfs[Files[i]].data))
              /\ fs[Files[i]] = File(Rewritten(startfs[Files[i]].data))
       /\ total = counts[1] + counts[2] + counts[3]

\* A run whose first file was missing has finished after rewriting the second.
C5_Witness ==
  /\ pc = "done" /\ runs = 1
  /\ ~startfs[Files[1]].exists
  /\ Files[1] \in warnings
  /\ startfs[Files[2]].exists
  /\ counts[2] > 0
  /\ fs[Files[2]] # startfs[Files[2]]

\* C6: an error other than file-not-found on an existing file ends the run at
\* that file: exit status 1, the error reported, no summary, no step after it,
\* every later file and its backup untouched, every earlier file still
\* rewritten.
C6_Abort ==
  pc = "aborted" =>
    /\ exit_status = 1
    /\ report # ""
    /\ ~summary
    /\ ~ENABLED NextRun
    /\ startfs[Files[idx]].exists
    /\ \A i \in Targets :
         i > idx => /\ fs[Files[i]] = startfs[Files[i]]
                    /\ fs[Bak(Files[i])] = startfs[Bak(Files[i])]
                    /\ ~Touched(i)
    /\ \A i \in Targets :
         (i < idx /\ startfs[Files[i]].exists) =>
           /\ fs[Files[i]] = File(Rewritten(startfs[Files[i]].data))
           /\ fs[Bak(Files[i])] = File(BackedUp(startfs[Files[i]].data))

\* The run stopped at the second file after rewriting the first, with a third
\* file waiting.
C6_Witness ==
  /\ pc = "aborted" /\ idx = 2
  /\ counts[1] > 0
  /\ fs[Files[1]] # startfs[Files[1]]
  /\ startfs[Files[3]].exists

\* C10: after a second (or later) run in succession, F.bak holds what F held
\* when that run started, which is the transformed content the first run wrote;
\* if the first run replaced something in F, neither F nor F.bak holds F's
\* original content any more.
C10_BackupOverwritten ==
  (pc = "done" /\ runs >= 2) =>
    \A i \in Targets :
      startfs[Files[i]].exists =>
        /\ fs[Bak(Files[i])] = startfs[Files[i]]
        /\ fs[Bak(Files[i])] = File(Rewritten(orig[Files[i]].data))
        /\ past[1].counts[i] > 0 =>
             /\ fs[Files[i]].data # orig[Files[i]].data
             /\ fs[Bak(Files[i])].data # orig[Files[i]].data

\* A second run has finished on a file in which the first run replaced a token.
C10_Witness ==
  /\ pc = "done" /\ runs = 2
  /\ \E i \in Targets : past[1].counts[i] > 0 /\ fs[Bak(Files[i])] # past[1].start[Files[i]]

====
